---------------------------- MODULE Spec2Model ----------------------------
(***************************************************************************)
(* Version history of the markdown prompt editor: the useVersioning hook   *)
(* (src/src/hooks/useVersioning.ts) over the VersionStorageService         *)
(* (localForage variant, src/unnamed/part_004).                            *)
(*                                                                         *)
(* Strings are sequences of one-character strings, timestamps are integer  *)
(* clock ticks, and every hook call reads the clock once and lets it       *)
(* advance by one tick.                                                    *)
(***************************************************************************)
EXTENDS Integers, Sequences, FiniteSets, TLC

VARIABLES
    documentState,  \* React state of the hook: [id, content, versions, updatedAt]
    rendered,       \* the documentState the current callbacks close over
    isLoading,      \* React state of the hook
    error,          \* React state of the hook: a message or NoError
    store,          \* the 'app-data' item of the localForage instance
    inflight,       \* saveDocument calls awaited by hook callbacks, oldest first
    loading,        \* loadDocument call awaited by loadDocumentFromStorage
    isInitialized,  \* VersionStorageService.isInitialized
    mountEffect,    \* the hook's useEffect: Done, or pending with the documentId given
    now,            \* the wall clock, in ticks
    ret             \* the last hook call: its name, arguments and result

vars == <<documentState, rendered, isLoading, error, store, inflight, loading,
          isInitialized, mountEffect, now, ret>>

-----------------------------------------------------------------------------
(* Bounds of the model *)

\* hook calls explored in one session
MaxCalls == 2
\* clock ticks per wall-clock minute (generateVersionName has minute resolution)
TicksPerMinute == 2
\* calls of the storage service explored in one run
MaxStorageCalls == 3

(* Constants of the requirements *)

\* "Cap: Keep up to 20 versions total"
VersionCap == 20
\* "Rename a version (1-40 chars)"
MaxNameLen == 40
\* "a summary (first ~80 chars)"
SummaryLen == 80

-----------------------------------------------------------------------------
(* Strings *)

\* null where a record is expected; the hook's error state when it is null
Null == [null |-> TRUE]
NoError == <<"<", "n", "u", "l", "l", ">">>
\* documentId when the hook is given none (undefined and '' are both falsy)
NoDocumentId == <<>>

IsSpace(c) == c \in {" ", "\n", "\t"}

\* !s.trim()
IsBlank(s) == \A i \in 1..Len(s) : IsSpace(s[i])

RECURSIVE SplitWords(_, _, _)
\* s.trim().split(/\s+/) for a string that is not blank
SplitWords(s, cur, acc) ==
    IF s = <<>>
    THEN IF cur = <<>> THEN acc ELSE Append(acc, cur)
    ELSE IF IsSpace(Head(s))
         THEN SplitWords(Tail(s), <<>>, IF cur = <<>> THEN acc ELSE Append(acc, cur))
         ELSE SplitWords(Tail(s), Append(cur, Head(s)), acc)

RECURSIVE JoinWords(_)
\* words.join(' ')
JoinWords(ws) ==
    IF ws = <<>> THEN <<>>
    ELSE IF Len(ws) = 1 THEN ws[1]
    ELSE ws[1] \o <<" ">> \o JoinWords(Tail(ws))

DigitChars == <<"0", "1", "2", "3", "4", "5", "6", "7", "8", "9">>

RECURSIVE NumToStr(_)
\* `${n}` for a natural number
NumToStr(n) ==
    IF n < 10 THEN <<DigitChars[n + 1]>>
    ELSE NumToStr(n \div 10) \o <<DigitChars[(n % 10) + 1]>>

\* two-digit rendering of a number below 100
TwoDigits(n) == <<DigitChars[(n \div 10) + 1], DigitChars[(n % 10) + 1]>>

-----------------------------------------------------------------------------
(* Pure helpers of the hook *)

\* `ver_${Date.now()}_${random}`: fresh for every call
generateVersionId(t) == <<"ver", t>>

\* `doc_${Date.now()}_${random}`
generateDocumentId(t) == <<"doc", t>>

MinuteOf(t) == t \div TicksPerMinute

\* `Version ${toLocaleDateString(month, day, hour, minute)}`: the clock at
\* minute resolution
generateVersionName(t) ==
    <<"V", "e", "r", "s", "i", "o", "n", " ", "S", "e", "p", " ", "5", ",", " ",
      "1", "0", ":">> \o TwoDigits(MinuteOf(t) % 60) \o <<" ", "A", "M">>

generateContentSummary(content) ==
    IF IsBlank(content)
    THEN <<"E", "m", "p", "t", "y", " ", "p", "r", "o", "m", "p", "t">>
    ELSE LET words == SplitWords(content, <<>>, <<>>)
             wordCount == Len(words)
             charCount == Len(content)
             preview == JoinWords(SubSeq(words, 1, IF wordCount < 10 THEN wordCount ELSE 10))
             suffix == IF wordCount > 10 THEN <<".", ".", ".">> ELSE <<>>
         IN  NumToStr(wordCount) \o <<" ", "w", "o", "r", "d", "s", ",", " ">>
             \o NumToStr(charCount) \o <<" ", "c", "h", "a", "r", "s", " ", "-", " ">>
             \o preview \o suffix

\* the Version object saveVersion builds; an absent or empty name is falsy
NewVersion(content, name, t) ==
    [id |-> generateVersionId(t),
     createdAt |-> t,
     name |-> IF name # <<>> THEN name ELSE generateVersionName(t),
     content |-> content,
     summary |-> generateContentSummary(content)]

\* saveVersion that appends the new version instead of prepending it
SaveVersionStateAppends(d, content, name, t) ==
    [d EXCEPT !.content = content,
              !.versions = d.versions \o <<NewVersion(content, name, t)>>,
              !.updatedAt = t]

\* updatedState of saveVersion, from the documentState d the callback closes over
SaveVersionState(d, content, name, t) ==
    [d EXCEPT !.content = content,
              !.versions = <<NewVersion(content, name, t)>> \o d.versions,
              !.updatedAt = t]

\* documentState.versions.find(v => v.id === versionId)
FindVersion(d, versionId) ==
    LET hits == {i \in 1..Len(d.versions) : d.versions[i].id = versionId}
    IN  IF hits = {} THEN Null
        ELSE d.versions[CHOOSE i \in hits : \A j \in hits : i <= j]

\* loadVersion that takes the restored version out of the history
LoadVersionStateRemoves(d, version, t) ==
    [d EXCEPT !.content = version.content,
              !.versions = SelectSeq(d.versions, LAMBDA v : v.id # version.id),
              !.updatedAt = t]

\* updatedState of loadVersion for a version that was found
LoadVersionState(d, version, t) ==
    [d EXCEPT !.content = version.content, !.updatedAt = t]

\* a filter that drops the newest version along with the one asked for
FilterOutIdAndHead(versions, versionId) ==
    IF versions = <<>> THEN <<>>
    ELSE SelectSeq(Tail(versions), LAMBDA v : v.id # versionId)

\* documentState.versions.filter(v => v.id !== versionId)
FilterOutId(versions, versionId) ==
    SelectSeq(versions, LAMBDA v : v.id # versionId)

\* updatedState of deleteVersion
DeleteVersionState(d, versionId) ==
    [d EXCEPT !.versions = FilterOutId(d.versions, versionId)]

\* updateContent that also writes the text into the newest version
UpdateContentStateEditsHead(d, content, t) ==
    [d EXCEPT !.content = content,
              !.versions = IF @ = <<>> THEN @
                           ELSE <<[@[1] EXCEPT !.content = content]>> \o Tail(@),
              !.updatedAt = t]

\* updatedState of updateContent
UpdateContentState(d, content, t) ==
    [d EXCEPT !.content = content, !.updatedAt = t]

\* documentState.versions[0] || null
getLatestVersion(d) == IF d.versions = <<>> THEN Null ELSE d.versions[1]

\* hasUnsavedChanges that reports a document without versions as clean
hasUnsavedChangesIgnoresEmpty(d) ==
    LET latestVersion == getLatestVersion(d)
    IN  IF latestVersion = Null THEN FALSE
        ELSE latestVersion.content # d.content

hasUnsavedChanges(d) ==
    LET latestVersion == getLatestVersion(d)
    IN  IF latestVersion = Null THEN Len(d.content) > 0
        ELSE latestVersion.content # d.content

\* the state useState starts from and createNewDocument installs
NewDocumentState(t) ==
    [id |-> generateDocumentId(t), content |-> <<>>, versions |-> <<>>, updatedAt |-> t]


-----------------------------------------------------------------------------
(* VersionStorageService, localForage variant: one item 'app-data' *)

\* what saveDocument hands to store.setItem('app-data', data)
AppData(d) ==
    [documents |-> (d.id :> d),
     versions |-> [i \in 1..Len(d.versions) |->
                     [id |-> d.versions[i].id,
                      createdAt |-> d.versions[i].createdAt,
                      name |-> d.versions[i].name,
                      content |-> d.versions[i].content,
                      summary |-> d.versions[i].summary,
                      documentId |-> d.id]]]

RECURSIVE InsertNewestFirst(_, _)
\* v placed after every element that is not older than it
InsertNewestFirst(sorted, v) ==
    IF sorted = <<>> THEN <<v>>
    ELSE IF Head(sorted).createdAt >= v.createdAt
         THEN <<Head(sorted)>> \o InsertNewestFirst(Tail(sorted), v)
         ELSE <<v>> \o sorted

RECURSIVE InsertOldestFirst(_, _)
InsertOldestFirst(sorted, v) ==
    IF sorted = <<>> THEN <<v>>
    ELSE IF Head(sorted).createdAt <= v.createdAt
         THEN <<Head(sorted)>> \o InsertOldestFirst(Tail(sorted), v)
         ELSE <<v>> \o sorted

RECURSIVE SortOldestFirst(_)
\* a sort with the comparator's operands swapped: oldest first
SortOldestFirst(vs) ==
    IF vs = <<>> THEN <<>>
    ELSE InsertOldestFirst(SortOldestFirst(SubSeq(vs, 1, Len(vs) - 1)), vs[Len(vs)])

RECURSIVE SortNewestFirst(_)
\* .sort((a, b) => new Date(b.createdAt) - new Date(a.createdAt)), a stable sort
SortNewestFirst(vs) ==
    IF vs = <<>> THEN <<>>
    ELSE InsertNewestFirst(SortNewestFirst(SubSeq(vs, 1, Len(vs) - 1)), vs[Len(vs)])

\* loadDocument on the item read from the store; Null when there is nothing
LoadDocumentResult(data, documentId) ==
    IF data = Null THEN Null
    ELSE IF documentId \notin DOMAIN data.documents THEN Null
    ELSE LET document == data.documents[documentId]
             mine == SelectSeq(data.versions, LAMBDA v : v.documentId = documentId)
             versions == SortNewestFirst(
                 [i \in 1..Len(mine) |->
                    [id |-> mine[i].id,
                     name |-> mine[i].name,
                     content |-> mine[i].content,
                     summary |-> mine[i].summary,
                     createdAt |-> mine[i].createdAt]])
         IN  [id |-> document.id,
              content |-> document.content,
              versions |-> versions,
              updatedAt |-> document.updatedAt]

-----------------------------------------------------------------------------
(* What an earlier session of the editor left in the store *)

CharA == <<"a">>
CharB == <<"b">>

PriorDocTime == 0
BaseTime == VersionCap + 1
LastTick == BaseTime + MaxCalls

\* content of the k-th version saved by the earlier session
PriorContent(k) == IF k % 2 = 0 THEN CharB ELSE CharA

\* name typed for the k-th version: "named" names every version, "mixed" only
\* the first one
PriorName(k, pattern) ==
    IF pattern = "named" \/ k = 1 THEN <<"v">> \o NumToStr(k) ELSE <<>>

RECURSIVE PriorSession(_, _)
\* the document after k saveVersion calls at ticks 1..k
PriorSession(k, pattern) ==
    IF k = 0 THEN NewDocumentState(PriorDocTime)
    ELSE SaveVersionState(PriorSession(k - 1, pattern), PriorContent(k),
                          PriorName(k, pattern), k)

PriorStores ==
    {Null} \cup {AppData(PriorSession(VersionCap, p)) : p \in {"named", "mixed"}}

-----------------------------------------------------------------------------
(* Inputs *)

LongName == [i \in 1..(MaxNameLen + 1) |-> "x"]
NameN1 == <<"n", "1">>

Contents == {<<>>, CharA, CharB}
\* arguments of saveVersion: every content without a name (<<>> stands for a
\* name that was not given, undefined or ''), and a short and an overlong name
SaveInputs ==
    {<<c, <<>> >> : c \in Contents} \cup {<<CharA, NameN1>>, <<CharB, LongName>>}
MissingVersionId == generateVersionId(PriorDocTime)
DocumentIds == {generateDocumentId(PriorDocTime)}

\* ids of the newest and the second version, and an id no version has
VersionIdInputs(d) ==
    {d.versions[i].id : i \in {1, 2} \cap (1..Len(d.versions))}
    \cup {MissingVersionId}

-----------------------------------------------------------------------------
(* State machine *)

\* useVersioning('', documentId) right after its first render: documentId is
\* not given over an empty store, and is the stored document's id otherwise
Init ==
    /\ store \in PriorStores
    /\ mountEffect = [documentId |-> IF store = Null THEN NoDocumentId
                                     ELSE generateDocumentId(PriorDocTime)]
    /\ documentState =
           [NewDocumentState(BaseTime) EXCEPT
               !.id = IF mountEffect.documentId # NoDocumentId
                      THEN mountEffect.documentId ELSE @]
    /\ rendered = documentState
    /\ isLoading = FALSE
    /\ error = NoError
    /\ inflight = <<>>
    /\ loading = Null
    /\ isInitialized = FALSE
    /\ now = BaseTime + 1
    /\ ret = [op |-> "useVersioning"]

CanCall == now <= LastTick

\* React commits the state the handler set before the next event is handled
Commit == rendered' = documentState'

Done == [done |-> TRUE]

\* the effect's initializeStorage once versionStorage.init() has resolved:
\* loadDocumentFromStorage(documentId) up to its await when documentId is given
InitializeStorageRuns ==
    /\ mountEffect # Done
    /\ loading = Null
    /\ isInitialized' = TRUE
    /\ IF mountEffect.documentId # NoDocumentId
       THEN /\ isLoading' = TRUE
            /\ error' = NoError
            /\ loading' = [docId |-> mountEffect.documentId]
       ELSE UNCHANGED <<isLoading, error, loading>>
    /\ mountEffect' = Done
    /\ UNCHANGED <<documentState, store, inflight, now, ret>>

\* what saveVersion passes to setError in its catch block
FailedToSaveVersion ==
    <<"F", "a", "i", "l", "e", "d", " ", "t", "o", " ", "s", "a", "v", "e", " ",
      "v", "e", "r", "s", "i", "o", "n">>

SaveVersionCall(content, name) ==
    /\ CanCall
    /\ documentState' = SaveVersionState(rendered, content, name, now)
    /\ inflight' = Append(inflight, [doc |-> documentState', msg |-> FailedToSaveVersion])
    /\ ret' = [op |-> "saveVersion", content |-> content, name |-> name,
               result |-> NewVersion(content, name, now)]
    /\ now' = now + 1
    /\ UNCHANGED <<isLoading, error, store, loading, isInitialized, mountEffect>>

LoadVersionCall(versionId) ==
    /\ CanCall
    /\ LET version == FindVersion(rendered, versionId)
       IN  IF version # Null
           THEN /\ documentState' = LoadVersionState(rendered, version, now)
                /\ inflight' = Append(inflight,
                       [doc |-> documentState',
                        msg |-> <<"F", "a", "i", "l", "e", "d", " ", "t", "o", " ", "s", "a", "v", "e", " ",
                                  "s", "t", "a", "t", "e">>])
                /\ ret' = [op |-> "loadVersion", versionId |-> versionId,
                           result |-> [content |-> version.content]]
           ELSE /\ UNCHANGED <<documentState, inflight>>
                /\ ret' = [op |-> "loadVersion", versionId |-> versionId,
                           result |-> Null]
    /\ now' = now + 1
    /\ UNCHANGED <<isLoading, error, store, loading, isInitialized, mountEffect>>

DeleteVersionCall(versionId) ==
    /\ CanCall
    /\ documentState' = DeleteVersionState(rendered, versionId)
    /\ inflight' = Append(inflight,
           [doc |-> documentState',
            msg |-> <<"F", "a", "i", "l", "e", "d", " ", "t", "o", " ", "d", "e", "l", "e", "t", "e", " ",
                      "v", "e", "r", "s", "i", "o", "n">>])
    /\ ret' = [op |-> "deleteVersion", versionId |-> versionId]
    /\ now' = now + 1
    /\ UNCHANGED <<isLoading, error, store, loading, isInitialized, mountEffect>>

UpdateContentCall(content) ==
    /\ CanCall
    /\ documentState' = UpdateContentState(rendered, content, now)
    /\ inflight' = Append(inflight,
           [doc |-> documentState',
            msg |-> <<"F", "a", "i", "l", "e", "d", " ", "t", "o", " ", "s", "a", "v", "e", " ",
                      "s", "t", "a", "t", "e">>])
    /\ ret' = [op |-> "updateContent", content |-> content]
    /\ now' = now + 1
    /\ UNCHANGED <<isLoading, error, store, loading, isInitialized, mountEffect>>

CreateNewDocumentCall ==
    /\ CanCall
    /\ documentState' = NewDocumentState(now)
    /\ error' = NoError
    /\ ret' = [op |-> "createNewDocument"]
    /\ now' = now + 1
    /\ UNCHANGED <<isLoading, store, inflight, loading, isInitialized, mountEffect>>

\* loadDocumentFromStorage up to its await
LoadDocumentFromStorageCall(docId) ==
    /\ CanCall
    /\ loading = Null
    /\ isLoading' = TRUE
    /\ error' = NoError
    /\ loading' = [docId |-> docId]
    /\ ret' = [op |-> "loadDocumentFromStorage"]
    /\ now' = now + 1
    /\ UNCHANGED <<documentState, store, inflight, isInitialized, mountEffect>>

\* loadDocument settles: store.getItem gave the item, or threw and loadDocument
\* caught it and returned null
LoadDocumentSettles(readFails) ==
    /\ loading # Null
    /\ LET loadedDocument ==
               IF readFails THEN Null ELSE LoadDocumentResult(store, loading.docId)
       IN  documentState' = IF loadedDocument # Null THEN loadedDocument ELSE documentState
    /\ isLoading' = FALSE
    /\ loading' = Null
    /\ isInitialized' = TRUE
    /\ UNCHANGED <<error, store, inflight, mountEffect, now, ret>>

\* the oldest awaited saveDocument resolves: setItem wrote the item
SaveDocumentResolves ==
    /\ inflight # <<>>
    /\ store' = AppData(Head(inflight).doc)
    /\ error' = NoError
    /\ inflight' = Tail(inflight)
    /\ isInitialized' = TRUE
    /\ UNCHANGED <<documentState, isLoading, loading, mountEffect, now, ret>>

\* a rejected saveDocument that the hook swallows without setError
SaveDocumentRejectsSilently ==
    /\ inflight # <<>>
    /\ inflight' = Tail(inflight)
    /\ isInitialized' = TRUE
    /\ UNCHANGED <<documentState, isLoading, error, store, loading, mountEffect, now, ret>>

\* a rejected saveDocument after which the hook falls back to the stored
\* document
SaveDocumentRejectsRollsBack ==
    /\ inflight # <<>>
    /\ documentState' =
           LET stored == LoadDocumentResult(store, Head(inflight).doc.id)
           IN  IF stored # Null THEN stored ELSE documentState
    /\ error' = Head(inflight).msg
    /\ inflight' = Tail(inflight)
    /\ isInitialized' = TRUE
    /\ UNCHANGED <<isLoading, store, loading, mountEffect, now, ret>>

\* a rejected saveDocument that the hook issues again
SaveDocumentRejectsRetries ==
    /\ inflight # <<>>
    /\ error' = Head(inflight).msg
    /\ inflight' = Append(Tail(inflight), Head(inflight))
    /\ isInitialized' = TRUE
    /\ UNCHANGED <<documentState, isLoading, store, loading, mountEffect, now, ret>>

\* the oldest awaited saveDocument rejects: setItem threw (quota, ...)
SaveDocumentRejects ==
    /\ inflight # <<>>
    /\ error' = Head(inflight).msg
    /\ inflight' = Tail(inflight)
    /\ isInitialized' = TRUE
    /\ UNCHANGED <<documentState, isLoading, store, loading, mountEffect, now, ret>>

InitializeStorage == InitializeStorageRuns /\ Commit
SaveVersion == \E in \in SaveInputs : SaveVersionCall(in[1], in[2]) /\ Commit
LoadVersion == \E id \in VersionIdInputs(rendered) : LoadVersionCall(id) /\ Commit
DeleteVersion == \E id \in VersionIdInputs(rendered) : DeleteVersionCall(id) /\ Commit
UpdateContent == \E c \in Contents : UpdateContentCall(c) /\ Commit
CreateNewDocument == CreateNewDocumentCall /\ Commit
LoadDocumentFromStorage == \E id \in DocumentIds : LoadDocumentFromStorageCall(id) /\ Commit
LoadDocumentDone == \E f \in BOOLEAN : LoadDocumentSettles(f) /\ Commit
SaveDocumentDone == SaveDocumentResolves /\ Commit
SaveDocumentFailed == SaveDocumentRejects /\ Commit

Next ==
    \/ InitializeStorage
    \/ SaveVersion
    \/ LoadVersion
    \/ DeleteVersion
    \/ UpdateContent
    \/ CreateNewDocument
    \/ LoadDocumentFromStorage
    \/ LoadDocumentDone
    \/ SaveDocumentDone
    \/ SaveDocumentFailed

Spec == Init /\ [][Next]_vars

-----------------------------------------------------------------------------
(* Calls issued before React has re-rendered: the callbacks a caller holds   *)
(* are those of the last render, and close over that render's documentState *)

\* React renders the component with the state set so far; useCallback then
\* hands out callbacks closing over it
Render ==
    /\ rendered # documentState
    /\ rendered' = documentState
    /\ UNCHANGED <<documentState, isLoading, error, store, inflight, loading,
                   isInitialized, mountEffect, now, ret>>

RapidInitializeStorage == InitializeStorageRuns /\ UNCHANGED rendered
RapidSaveVersion ==
    \E in \in SaveInputs : SaveVersionCall(in[1], in[2]) /\ UNCHANGED rendered
RapidLoadVersion ==
    \E id \in VersionIdInputs(rendered) : LoadVersionCall(id) /\ UNCHANGED rendered
RapidDeleteVersion ==
    \E id \in VersionIdInputs(rendered) : DeleteVersionCall(id) /\ UNCHANGED rendered
RapidUpdateContent == \E c \in Contents : UpdateContentCall(c) /\ UNCHANGED rendered
RapidCreateNewDocument == CreateNewDocumentCall /\ UNCHANGED rendered
RapidLoadDocumentFromStorage ==
    \E id \in DocumentIds : LoadDocumentFromStorageCall(id) /\ UNCHANGED rendered
RapidLoadDocumentDone ==
    \E f \in BOOLEAN : LoadDocumentSettles(f) /\ UNCHANGED rendered
RapidSaveDocumentDone == SaveDocumentResolves /\ UNCHANGED rendered
RapidSaveDocumentFailed == SaveDocumentRejects /\ UNCHANGED rendered

NextRapid ==
    \/ Render
    \/ RapidInitializeStorage
    \/ RapidSaveVersion
    \/ RapidLoadVersion
    \/ RapidDeleteVersion
    \/ RapidUpdateContent
    \/ RapidCreateNewDocument
    \/ RapidLoadDocumentFromStorage
    \/ RapidLoadDocumentDone
    \/ RapidSaveDocumentDone
    \/ RapidSaveDocumentFailed

SpecRapid == Init /\ [][NextRapid]_vars

-----------------------------------------------------------------------------
(* VersionStorageService, IndexedDB variant: one object store with keyPath   *)
(* 'id' holding a record per document and a record per version; the store   *)
(* is a function from record ids to records                                  *)

EmptyDb == <<>>

\* the records saveDocument puts: the document's and one per version; put
\* replaces the record with the same id and leaves every other record alone
IdbSaveDocument(db, d, t) ==
    LET versionIds == {d.versions[i].id : i \in 1..Len(d.versions)}
        versionRecord(k) ==
            LET version == d.versions[CHOOSE i \in 1..Len(d.versions) :
                                         /\ d.versions[i].id = k
                                         /\ \A j \in (i+1)..Len(d.versions) :
                                                d.versions[j].id # k]
            IN  [id |-> version.id,
                 type |-> "version",
                 documentId |-> d.id,
                 name |-> version.name,
                 content |-> version.content,
                 summary |-> version.summary,
                 createdAt |-> version.createdAt]
    IN  [k \in DOMAIN db \cup {d.id} \cup versionIds |->
            IF k \in versionIds THEN versionRecord(k)
            ELSE IF k = d.id
                 THEN [id |-> d.id,
                       type |-> "document",
                       content |-> d.content,
                       updatedAt |-> d.updatedAt,
                       createdAt |-> t]
                 ELSE db[k]]

\* the keys of the 'documentId' index under documentId: document records have
\* no documentId property and are not indexed
IdbVersionKeys(db, documentId) ==
    {k \in DOMAIN db : db[k].type = "version" /\ db[k].documentId = documentId}

RECURSIVE IdbInKeyOrder(_, _)
\* versionIndex.getAll(documentId): the records under the keys, in ascending
\* order of primary key
IdbInKeyOrder(db, keys) ==
    IF keys = {} THEN <<>>
    ELSE LET first == CHOOSE k \in keys : \A other \in keys : k[2] <= other[2]
         IN  <<db[first]>> \o IdbInKeyOrder(db, keys \ {first})

\* loadDocument; Null when no document record has the id
IdbLoadDocument(db, documentId) ==
    IF documentId \notin DOMAIN db THEN Null
    ELSE IF db[documentId].type # "document" THEN Null
    ELSE LET document == db[documentId]
             versionRecords == IdbInKeyOrder(db, IdbVersionKeys(db, documentId))
             versions == SortNewestFirst(
                 [i \in 1..Len(versionRecords) |->
                    [id |-> versionRecords[i].id,
                     name |-> versionRecords[i].name,
                     content |-> versionRecords[i].content,
                     summary |-> versionRecords[i].summary,
                     createdAt |-> versionRecords[i].createdAt]])
         IN  [id |-> document.id,
              content |-> document.content,
              versions |-> versions,
              updatedAt |-> document.updatedAt]

\* what loadDocumentFromStorage passes to setError in its catch block
FailedToLoadDocument ==
    <<"F", "a", "i", "l", "e", "d", " ", "t", "o", " ", "l", "o", "a", "d", " ",
      "d", "o", "c", "u", "m", "e", "n", "t">>

PriorDbs ==
    {EmptyDb} \cup {IdbSaveDocument(EmptyDb, PriorSession(VersionCap, p), VersionCap)
                       : p \in {"named", "mixed"}}

\* the hook right after its first render, over the IndexedDB variant
InitIdb ==
    /\ store \in PriorDbs
    /\ mountEffect = [documentId |-> IF store = EmptyDb THEN NoDocumentId
                                     ELSE generateDocumentId(PriorDocTime)]
    /\ documentState =
           [NewDocumentState(BaseTime) EXCEPT
               !.id = IF mountEffect.documentId # NoDocumentId
                      THEN mountEffect.documentId ELSE @]
    /\ rendered = documentState
    /\ isLoading = FALSE
    /\ error = NoError
    /\ inflight = <<>>
    /\ loading = Null
    /\ isInitialized = FALSE
    /\ now = BaseTime + 1
    /\ ret = [op |-> "useVersioning"]

\* the oldest awaited saveDocument resolves: every put succeeded
IdbSaveDocumentResolves ==
    /\ inflight # <<>>
    /\ store' = IdbSaveDocument(store, Head(inflight).doc, now)
    /\ error' = NoError
    /\ inflight' = Tail(inflight)
    /\ isInitialized' = TRUE
    /\ UNCHANGED <<documentState, isLoading, loading, mountEffect, now, ret>>

\* loadDocumentFromStorage without its finally block
IdbLoadDocumentSettlesStaysLoading(readFails) ==
    /\ loading # Null
    /\ LET loadedDocument == IdbLoadDocument(store, loading.docId)
       IN  IF readFails
           THEN /\ error' = FailedToLoadDocument
                /\ UNCHANGED documentState
           ELSE /\ documentState' = IF loadedDocument # Null THEN loadedDocument
                                     ELSE documentState
                /\ UNCHANGED error
    /\ loading' = Null
    /\ isInitialized' = TRUE
    /\ UNCHANGED <<isLoading, store, inflight, mountEffect, now, ret>>

\* loadDocument settles: it resolves with what the store holds, or a request
\* fails, loadDocument rejects and the hook's catch block reports it
IdbLoadDocumentSettles(readFails) ==
    /\ loading # Null
    /\ LET loadedDocument == IdbLoadDocument(store, loading.docId)
       IN  IF readFails
           THEN /\ error' = FailedToLoadDocument
                /\ UNCHANGED documentState
           ELSE /\ documentState' = IF loadedDocument # Null THEN loadedDocument
                                     ELSE documentState
                /\ UNCHANGED error
    /\ isLoading' = FALSE
    /\ loading' = Null
    /\ isInitialized' = TRUE
    /\ UNCHANGED <<store, inflight, mountEffect, now, ret>>

IdbLoadDocumentDone ==
    \/ IdbLoadDocumentSettles(TRUE) /\ Commit
    \/ IdbLoadDocumentSettles(FALSE) /\ Commit
IdbSaveDocumentDone == IdbSaveDocumentResolves /\ Commit

NextIdb ==
    \/ InitializeStorage
    \/ SaveVersion
    \/ LoadVersion
    \/ DeleteVersion
    \/ UpdateContent
    \/ CreateNewDocument
    \/ LoadDocumentFromStorage
    \/ IdbLoadDocumentDone
    \/ IdbSaveDocumentDone
    \/ SaveDocumentFailed

SpecIdb == InitIdb /\ [][NextIdb]_vars

\* every request to the object store ends with a success or an error event,
\* so a pending loadDocument settles
SpecIdbLive == SpecIdb /\ WF_vars(IdbLoadDocumentDone)

-----------------------------------------------------------------------------
(* The storage service on its own: one sequence of calls, applied to the     *)
(* localForage variant (store.lf, the 'app-data' item) and to the IndexedDB  *)
(* variant (store.idb, the object store)                                     *)

\* getAllDocumentIds of the localForage variant, as a set
LfGetAllDocumentIds(data) ==
    IF data = Null THEN {} ELSE DOMAIN data.documents

\* what deleteDocument of the localForage variant leaves in 'app-data'
LfDeleteDocument(data, documentId) ==
    IF data = Null THEN Null
    ELSE [documents |-> [k \in (DOMAIN data.documents) \ {documentId} |->
                            data.documents[k]],
          versions |-> SelectSeq(data.versions, LAMBDA v : v.documentId # documentId)]

\* getAllDocumentIds of the IndexedDB variant, as a set
IdbGetAllDocumentIds(db) == {k \in DOMAIN db : db[k].type = "document"}

\* deleteDocument that deletes the document record only
IdbDeleteDocumentKeepsVersions(db, documentId) ==
    [k \in (DOMAIN db) \ {documentId} |-> db[k]]

\* deleteDocument of the IndexedDB variant: store.delete(documentId), then
\* store.delete of every key the 'documentId' index holds under documentId
IdbDeleteDocument(db, documentId) ==
    [k \in (DOMAIN db) \ ({documentId} \cup IdbVersionKeys(db, documentId)) |-> db[k]]

\* a second document, created and saved after the earlier session's
OtherDocument(k) ==
    IF k = 0 THEN NewDocumentState(BaseTime)
    ELSE SaveVersionState(NewDocumentState(BaseTime), CharB, <<>>, BaseTime + 1)

\* documents handed to saveDocument: with 0, 1 and 20 versions under one id,
\* with 0 and 1 version under another
StoredDocuments ==
    {PriorSession(k, "mixed") : k \in {0, 1, VersionCap}}
    \cup {OtherDocument(k) : k \in {0, 1}}

StoredDocumentIds == {d.id : d \in StoredDocuments}

InitStorage ==
    /\ store = [lf |-> Null, idb |-> EmptyDb]
    /\ documentState = NewDocumentState(BaseTime)
    /\ rendered = documentState
    /\ isLoading = FALSE
    /\ error = NoError
    /\ inflight = <<>>
    /\ loading = Null
    /\ isInitialized = TRUE
    /\ mountEffect = Done
    /\ now = BaseTime + 1
    /\ ret = [op |-> "init"]

StorageCanCall == now <= BaseTime + MaxStorageCalls

StorageSaveDocument(d) ==
    /\ StorageCanCall
    /\ store' = [lf |-> AppData(d), idb |-> IdbSaveDocument(store.idb, d, now)]
    /\ ret' = [op |-> "saveDocument", doc |-> d]
    /\ now' = now + 1
    /\ UNCHANGED <<documentState, rendered, isLoading, error, inflight, loading,
                   isInitialized, mountEffect>>

StorageLoadDocument(documentId) ==
    /\ StorageCanCall
    /\ ret' = [op |-> "loadDocument", id |-> documentId,
               lf |-> LoadDocumentResult(store.lf, documentId),
               idb |-> IdbLoadDocument(store.idb, documentId)]
    /\ now' = now + 1
    /\ UNCHANGED <<documentState, rendered, isLoading, error, store, inflight,
                   loading, isInitialized, mountEffect>>

StorageGetAllDocumentIds ==
    /\ StorageCanCall
    /\ ret' = [op |-> "getAllDocumentIds",
               lf |-> LfGetAllDocumentIds(store.lf),
               idb |-> IdbGetAllDocumentIds(store.idb)]
    /\ now' = now + 1
    /\ UNCHANGED <<documentState, rendered, isLoading, error, store, inflight,
                   loading, isInitialized, mountEffect>>

StorageDeleteDocument(documentId) ==
    /\ StorageCanCall
    /\ store' = [lf |-> LfDeleteDocument(store.lf, documentId),
                 idb |-> IdbDeleteDocument(store.idb, documentId)]
    /\ ret' = [op |-> "deleteDocument", id |-> documentId]
    /\ now' = now + 1
    /\ UNCHANGED <<documentState, rendered, isLoading, error, inflight, loading,
                   isInitialized, mountEffect>>

SaveDocument == \E d \in StoredDocuments : StorageSaveDocument(d)
LoadDocument == \E id \in StoredDocumentIds : StorageLoadDocument(id)
GetAllDocumentIds == StorageGetAllDocumentIds
DeleteDocument == \E id \in StoredDocumentIds : StorageDeleteDocument(id)

NextStorage ==
    \/ SaveDocument
    \/ LoadDocument
    \/ GetAllDocumentIds
    \/ DeleteDocument

SpecStorage == InitStorage /\ [][NextStorage]_vars

-----------------------------------------------------------------------------
(* The storage service in an environment that can fail: store.available      *)
(* tells whether the browser offers any storage driver, and every write and  *)
(* read can fail on its own. One sequence of calls is applied to both        *)
(* variants; isInitialized.lf is the localForage variant's isInitialized,    *)
(* isInitialized.idb tells whether the IndexedDB variant's db is set, and    *)
(* store.opens counts the indexedDB.open requests issued                     *)

Resolved(value) == [resolved |-> value]
Rejected(reason) == [rejected |-> reason]
Void == [void |-> TRUE]

\* what the browser raises
NoDriverAvailable == [name |-> "No available storage method found"]
QuotaExceededError == [name |-> "QuotaExceededError"]
DataError == [name |-> "DataError"]

\* new Error('Failed to save document to storage'): the caught error is
\* logged and not attached
FailedToSaveDocument == [name |-> "Error", message |-> "Failed to save document to storage"]
\* new Error('Failed to open IndexedDB')
FailedToOpenIndexedDB == [name |-> "Error", message |-> "Failed to open IndexedDB"]

\* isStorageAvailable of the localForage variant: store.ready() resolved
LfIsStorageAvailable(available) == available

\* init of the localForage variant: both branches of the try set
\* isInitialized and the promise resolves
LfInitOutcome(available) == Resolved(Void)

\* init of the IndexedDB variant: request.onsuccess resolves, request.onerror
\* rejects
IdbInitOutcome(available) ==
    IF available THEN Resolved(Void) ELSE Rejected(FailedToOpenIndexedDB)

\* saveDocument of the localForage variant: setItem rejects when no driver is
\* available or the write fails, whatever the stage of the failure
LfSaveOutcome(available, failure) ==
    IF available /\ failure = "none" THEN Resolved(Void)
    ELSE Rejected(FailedToSaveDocument)

\* saveDocument of the IndexedDB variant: the lazy init rejects without a
\* database; a failed put rejects with request.error; the promise resolves
\* when the puts succeeded, also when the transaction aborts afterwards
IdbSaveOutcome(available, failure) ==
    IF ~available THEN Rejected(FailedToOpenIndexedDB)
    ELSE IF failure = "request" THEN Rejected(QuotaExceededError)
    ELSE Resolved(Void)

\* loadDocument of the localForage variant: the catch block returns null
LfLoadOutcome(available, failure, data, documentId) ==
    IF available /\ failure = "none"
    THEN Resolved(LoadDocumentResult(data, documentId))
    ELSE Resolved(Null)

\* loadDocument of the IndexedDB variant: a failed request rejects with
\* request.error
IdbLoadOutcome(available, failure, db, documentId) ==
    IF ~available THEN Rejected(FailedToOpenIndexedDB)
    ELSE IF failure # "none" THEN Rejected(DataError)
    ELSE Resolved(IdbLoadDocument(db, documentId))

ServiceDocuments == {PriorSession(1, "mixed"), OtherDocument(1)}
WriteFailures == {"none", "request", "commit"}
ReadFailures == {"none", "unreadable"}

InitService ==
    /\ store \in {[available |-> a, opens |-> 0, lf |-> Null, idb |-> EmptyDb]
                     : a \in BOOLEAN}
    /\ isInitialized = [lf |-> FALSE, idb |-> FALSE]
    /\ documentState = NewDocumentState(BaseTime)
    /\ rendered = documentState
    /\ isLoading = FALSE
    /\ error = NoError
    /\ inflight = <<>>
    /\ loading = Null
    /\ mountEffect = Done
    /\ now = BaseTime + 1
    /\ ret = [op |-> "new"]

\* init() up to its await: the localForage variant returns at once when it
\* is initialized and awaits store.ready() otherwise; the IndexedDB variant
\* issues indexedDB.open on every call
ServiceInitCall ==
    /\ StorageCanCall
    /\ inflight' = Append(inflight, [op |-> "init", awaitsReady |-> ~isInitialized.lf])
    /\ store' = [store EXCEPT !.opens = @ + 1]
    /\ now' = now + 1
    /\ UNCHANGED <<documentState, rendered, isLoading, error, loading,
                   isInitialized, mountEffect, ret>>

\* the oldest pending init() settles
ServiceInitSettles ==
    /\ inflight # <<>>
    /\ inflight' = Tail(inflight)
    /\ isInitialized' = [lf |-> TRUE, idb |-> isInitialized.idb \/ store.available]
    /\ ret' = [op |-> "init",
               lf |-> LfInitOutcome(store.available),
               idb |-> IdbInitOutcome(store.available)]
    /\ UNCHANGED <<documentState, rendered, isLoading, error, store, loading,
                   mountEffect, now>>

\* saveDocument(d) from call to settlement, its lazy init included
ServiceSaveDocument(d, failure) ==
    /\ StorageCanCall
    /\ LET lf == LfSaveOutcome(store.available, failure)
           idb == IdbSaveOutcome(store.available, failure)
       IN  /\ store' = [store EXCEPT
                  !.opens = IF isInitialized.idb THEN @ ELSE @ + 1,
                  !.lf = IF lf = Resolved(Void) THEN AppData(d) ELSE @,
                  !.idb = IF idb = Resolved(Void) /\ failure = "none"
                          THEN IdbSaveDocument(@, d, now) ELSE @]
           /\ ret' = [op |-> "saveDocument", doc |-> d, failure |-> failure,
                      lf |-> lf, idb |-> idb]
    /\ isInitialized' = [lf |-> TRUE, idb |-> isInitialized.idb \/ store.available]
    /\ now' = now + 1
    /\ UNCHANGED <<documentState, rendered, isLoading, error, inflight, loading,
                   mountEffect>>

\* loadDocument(documentId) from call to settlement, its lazy init included
ServiceLoadDocument(documentId, failure) ==
    /\ StorageCanCall
    /\ store' = [store EXCEPT !.opens = IF isInitialized.idb THEN @ ELSE @ + 1]
    /\ ret' = [op |-> "loadDocument", id |-> documentId, failure |-> failure,
               lf |-> LfLoadOutcome(store.available, failure, store.lf, documentId),
               idb |-> IdbLoadOutcome(store.available, failure, store.idb, documentId)]
    /\ isInitialized' = [lf |-> TRUE, idb |-> isInitialized.idb \/ store.available]
    /\ now' = now + 1
    /\ UNCHANGED <<documentState, rendered, isLoading, error, inflight, loading,
                   mountEffect>>

ServiceSave ==
    \E d \in ServiceDocuments, f \in WriteFailures : ServiceSaveDocument(d, f)
ServiceLoad ==
    \E id \in StoredDocumentIds, f \in ReadFailures : ServiceLoadDocument(id, f)

NextService ==
    \/ ServiceInitCall
    \/ ServiceInitSettles
    \/ ServiceSave
    \/ ServiceLoad

SpecService == InitService /\ [][NextService]_vars

-----------------------------------------------------------------------------
(* A caller invoking renameVersion on what the hook returns *)

TypeErrorNotAFunction == [error |-> "TypeError: renameVersion is not a function"]

\* the object useVersioning returns has no renameVersion member: invoking it
\* throws before anything is read or written
RenameVersionCall(versionId, newName) ==
    /\ CanCall
    /\ ret' = [op |-> "renameVersion", versionId |-> versionId, newName |-> newName,
               result |-> TypeErrorNotAFunction]
    /\ now' = now + 1
    /\ UNCHANGED <<documentState, isLoading, error, store, inflight, loading,
                   isInitialized, mountEffect>>

RenameVersion ==
    \E id \in VersionIdInputs(rendered), n \in {<<>>, NameN1, LongName} :
        RenameVersionCall(id, n) /\ Commit

NextWithRename == Next \/ RenameVersion

SpecRename == Init /\ [][NextWithRename]_vars

-----------------------------------------------------------------------------
(* Vocabulary of the properties *)

\* this step is a call of the hook operation op
IsCall(op) == now' # now /\ ret'.op = op

Versions == documentState.versions

\* a version is named when its name is not the default its timestamp gives
UserNamed(v) == v.name # generateVersionName(v.createdAt)

\* s without its k-th element; s itself for k = 0
RemoveAt(s, k) == [i \in 1..(Len(s) - (IF k = 0 THEN 0 ELSE 1)) |->
                     IF k = 0 \/ i < k THEN s[i] ELSE s[i + 1]]

AllVersionsNamedError == [error |-> "AllVersionsNamedError"]
DuplicateNameError == [error |-> "DuplicateNameError"]
InvalidNameError == [error |-> "InvalidNameError"]
Succeeded == [ok |-> TRUE]

-----------------------------------------------------------------------------
(* Properties *)

\* C1: the document never holds more than 20 versions.
C1_VersionsWithinCap == Len(Versions) <= VersionCap

\* C2: a saveVersion call on a document that holds 20 versions, all of them
\* named, fails with AllVersionsNamedError and leaves versions as they were.
C2_AllNamedSaveIsRejected ==
    [][(/\ IsCall("saveVersion")
        /\ Len(Versions) = VersionCap
        /\ \A i \in 1..Len(Versions) : UserNamed(Versions[i]))
       => (/\ ret'.result = AllVersionsNamedError
           /\ documentState'.versions = Versions)]_vars

\* C3: a saveVersion call on a document that holds 20 versions, at least one
\* of them unnamed, removes the oldest unnamed version and nothing else, and
\* puts the new version at the head, so that 20 versions remain.
C3_FullSaveEvictsOldestUnnamed ==
    [][(/\ IsCall("saveVersion")
        /\ Len(Versions) = VersionCap
        /\ \E i \in 1..Len(Versions) : ~UserNamed(Versions[i]))
       => LET unnamed == {i \in 1..Len(Versions) : ~UserNamed(Versions[i])}
              oldest == CHOOSE i \in unnamed : \A j \in unnamed : j <= i
          IN  /\ Len(documentState'.versions) = VersionCap
              /\ documentState'.versions = <<ret'.result>> \o RemoveAt(Versions, oldest)]_vars

\* C4: no two versions of the document carry the same name.
C4_NamesAreUnique ==
    \A i, j \in 1..Len(Versions) : i # j => Versions[i].name # Versions[j].name

\* C5: renameVersion(id, n) fails with DuplicateNameError and changes no
\* version when another version is named n, and succeeds when n is the
\* current name of the version id itself.
C5_RenameChecksOtherNamesOnly ==
    [][IsCall("renameVersion")
       => LET id == ret'.versionId
              n == ret'.newName
              taken == \E i \in 1..Len(Versions) :
                           Versions[i].id # id /\ Versions[i].name = n
              own == \E i \in 1..Len(Versions) :
                         Versions[i].id = id /\ Versions[i].name = n
          IN  /\ taken => ret'.result = DuplicateNameError /\ documentState' = documentState
              /\ (own /\ ~taken) => ret'.result = Succeeded]_vars

\* C6: no version stores a name shorter than 1 or longer than 40 characters
\* (a longer name given to saveVersion is rejected).
C6_StoredNamesWithinLength ==
    \A i \in 1..Len(Versions) :
        Len(Versions[i].name) >= 1 /\ Len(Versions[i].name) <= MaxNameLen

\* C7: restoreVersion (loadVersion) of an existing version sets content to
\* that version's content and leaves the list of versions exactly as it was;
\* for an id no version has, the document is left as it was.
C7_RestoreSetsContentKeepsVersions ==
    [][IsCall("loadVersion")
       => LET hits == {i \in 1..Len(Versions) : Versions[i].id = ret'.versionId}
          IN  IF hits # {}
              THEN /\ \A i \in hits : documentState'.content = Versions[i].content
                   /\ documentState'.versions = Versions
              ELSE documentState' = documentState]_vars

\* a restore of the second version, whose content differs from the newest's
C7_Restored ==
    /\ ret.op = "loadVersion"
    /\ Len(Versions) >= 2
    /\ ret.versionId = Versions[2].id
    /\ documentState.content = Versions[2].content
    /\ Versions[2].content # Versions[1].content

\* C8 (an instance): a document that a restore has just left dirty is still
\* dirty after a deleteVersion call, since no saveVersion call came between.
C8_DirtyAfterRestoreUntilSave ==
    [][(/\ ret.op = "loadVersion"
        /\ ret.result # Null
        /\ documentState.content = ret.result.content
        /\ hasUnsavedChanges(documentState)
        /\ IsCall("deleteVersion"))
       => hasUnsavedChanges(documentState')]_vars

\* isDirty as the data model states it
DirtyByDefinition ==
    IF Len(Versions) = 0
    THEN documentState.content # <<>>
    ELSE documentState.content # Versions[1].content

C10_SavePrependsAndCleans ==
    [][IsCall("saveVersion")
       => LET after == documentState'.versions
          IN  /\ Len(after) >= 1
              /\ after[1] = ret'.result
              /\ after[1].content = ret'.content
              /\ \E k \in 0..Len(Versions) : Tail(after) = RemoveAt(Versions, k)
              /\ documentState'.content = ret'.content
              /\ ~hasUnsavedChanges(documentState')
              /\ (Versions = <<>> => Len(after) = 1)]_vars

\* a save on a document that had versions already
C10_SavedOverHistory ==
    /\ ret.op = "saveVersion"
    /\ Len(Versions) >= 2
    /\ Versions[1] = ret.result
    /\ documentState.content = ret.content

\* C11: when the storage write issued by saveVersion fails, the hook reports
\* 'Failed to save version' in error and the in-memory document is left as
\* it is; when that write is the last call's, the version saveVersion
\* returned is versions[0], content is the saved content, and
\* hasUnsavedChanges() is computed from this in-memory state (not dirty).
C11_FailedWriteKeepsMemory ==
    [][(SaveDocumentRejects /\ Head(inflight).msg = FailedToSaveVersion)
       => /\ documentState' = documentState
          /\ error' = FailedToSaveVersion
          /\ hasUnsavedChanges(rendered') = DirtyByDefinition'
          /\ (ret.op = "saveVersion" /\ Len(inflight) = 1
                  /\ Head(inflight).doc = documentState)
             => /\ ret'.result = NewVersion(ret.content, ret.name, ret.result.createdAt)
                /\ documentState'.versions[1] = ret'.result
                /\ documentState'.content = ret'.content
                /\ ~hasUnsavedChanges(rendered')]_vars

\* the write of the last saveVersion call has failed: the store lacks the
\* version that the document holds at its head
C11_SaveWriteFailed ==
    /\ ret.op = "saveVersion"
    /\ inflight = <<>>
    /\ error = FailedToSaveVersion
    /\ Versions # <<>>
    /\ Versions[1] = ret.result
    /\ store # AppData(documentState)

\* C12: a saveVersion call issued right after another saveVersion call, while
\* the first call's version is the head of the in-memory list, computes its
\* state from the first call's result: afterwards the second version is
\* versions[0] and the first call's version is still in the list.
C12_SecondSaveKeepsFirst ==
    [][(/\ ret.op = "saveVersion"
        /\ Versions # <<>>
        /\ Versions[1] = ret.result
        /\ IsCall("saveVersion"))
       => /\ documentState'.versions[1] = ret'.result
          /\ \E i \in 1..Len(documentState'.versions) :
                 documentState'.versions[i] = ret.result]_vars

\* the four operations of the hook that write the document to the store
WritingOps == {"updateContent", "saveVersion", "loadVersion", "deleteVersion"}

\* C13: when the write of the last updateContent, saveVersion, loadVersion
\* or deleteVersion call completes successfully with no write left pending,
\* loadDocument of the document's id returns exactly the in-memory document:
\* same content, same versions in the same order (so a deleted version is
\* not returned).
C13_StoredDocumentIsMemory ==
    [][(/\ IdbSaveDocumentResolves
        /\ Len(inflight) = 1
        /\ Head(inflight).doc = documentState
        /\ ret.op \in WritingOps)
       => IdbLoadDocument(store', documentState.id) = documentState]_vars

\* C14: saveDocument(d) followed by loadDocument(d.id) returns a document
\* equal to d (id, content, updatedAt, and the versions in their order with
\* all their fields), in either storage variant, for d with 0, 1 or 20
\* versions.
C14_SaveThenLoadIsIdentity ==
    [][IsCall("saveDocument")
       => /\ Len(ret'.doc.versions) \in {0, 1, VersionCap}
          /\ LoadDocumentResult(store'.lf, ret'.doc.id) = ret'.doc
          /\ IdbLoadDocument(store'.idb, ret'.doc.id) = ret'.doc]_vars

\* C15: in every state, also one installed by loading a document from the
\* store, versions is ordered newest first: for i < j, versions[i].createdAt
\* is not older than versions[j].createdAt.
C15_VersionsNewestFirst ==
    \A i, j \in 1..Len(Versions) :
        i < j => Versions[i].createdAt >= Versions[j].createdAt

\* a version saved on top of a history that was loaded from the store
C15_SavedOverLoaded ==
    /\ ret.op = "saveVersion"
    /\ Len(Versions) = VersionCap + 1
    /\ Versions[1] = ret.result
    /\ Versions[1].createdAt > Versions[2].createdAt

\* the first ~80 characters of the content, whitespace normalized
NormalizedPrefix(content) ==
    LET normalized == IF IsBlank(content) THEN <<>>
                      ELSE JoinWords(SplitWords(content, <<>>, <<>>))
    IN  SubSeq(normalized, 1, IF Len(normalized) < SummaryLen THEN Len(normalized)
                              ELSE SummaryLen)

\* C16: the summary of every version is the first ~80 characters of its
\* content with whitespace normalized, so that it equals the content when
\* the content is short (the summary of a version saved with "# Hello" is
\* "# Hello").
C16_SummaryIsContentPrefix ==
    \A i \in 1..Len(Versions) :
        Versions[i].summary = NormalizedPrefix(Versions[i].content)

\* C17: deleteVersion(id) removes the version with that id and nothing
\* else: content is as before and the other versions keep their order; when
\* no version has the id, content and versions are as before and the call
\* returns normally.
C17_DeleteRemovesExactlyOne ==
    [][IsCall("deleteVersion")
       => LET hits == {i \in 1..Len(Versions) : Versions[i].id = ret'.versionId}
          IN  /\ documentState'.content = documentState.content
              /\ documentState'.id = documentState.id
              /\ ret' = [op |-> "deleteVersion", versionId |-> ret'.versionId]
              /\ IF hits = {}
                 THEN documentState'.versions = Versions
                 ELSE \E k \in hits :
                          /\ hits = {k}
                          /\ documentState'.versions = RemoveAt(Versions, k)]_vars

\* the second of 20 loaded versions has been deleted: the newest and the
\* third now follow each other
C17_DeletedSecond ==
    /\ ret.op = "deleteVersion"
    /\ Len(Versions) = VersionCap - 1
    /\ \A i \in 1..Len(Versions) : Versions[i].id # ret.versionId
    /\ Versions[1].createdAt = VersionCap
    /\ Versions[2].createdAt = VersionCap - 2

NotFoundError == [error |-> "NotFoundError"]

\* C18: reading a version's content for preview (the hook's only operation
\* that returns a version's content is loadVersion) leaves documentState
\* as it is and issues no storage write; it returns the version's content
\* when the id exists and fails with NotFoundError when it does not.
C18_PreviewLeavesDocument ==
    [][IsCall("loadVersion")
       => LET version == FindVersion(documentState, ret'.versionId)
          IN  /\ documentState' = documentState
              /\ inflight' = inflight
              /\ IF version # Null
                 THEN ret'.result = [content |-> version.content]
                 ELSE ret'.result = NotFoundError]_vars

\* C19: saveDocument(A) leaves every stored document B with another id
\* intact, in either storage variant: loadDocument(B) returns what it
\* returned before and getAllDocumentIds still lists B.
C19_SaveKeepsOtherDocuments ==
    [][IsCall("saveDocument")
       => \A id \in StoredDocumentIds \ {ret'.doc.id} :
             /\ LoadDocumentResult(store'.lf, id) = LoadDocumentResult(store.lf, id)
             /\ id \in LfGetAllDocumentIds(store.lf)
                   => id \in LfGetAllDocumentIds(store'.lf)
             /\ IdbLoadDocument(store'.idb, id) = IdbLoadDocument(store.idb, id)
             /\ id \in IdbGetAllDocumentIds(store.idb)
                   => id \in IdbGetAllDocumentIds(store'.idb)]_vars

\* C20: deleteDocument(id) removes the document and all of its versions and
\* nothing else, in either storage variant: afterwards loadDocument(id)
\* returns null, getAllDocumentIds does not list id, no version of id is
\* left, every document with another id loads as before and is listed as
\* before; when id was not stored, what the store holds is as before.
C20_DeleteRemovesOneDocument ==
    [][IsCall("deleteDocument")
       => LET id == ret'.id
          IN  /\ LoadDocumentResult(store'.lf, id) = Null
              /\ IdbLoadDocument(store'.idb, id) = Null
              /\ id \notin LfGetAllDocumentIds(store'.lf)
              /\ id \notin IdbGetAllDocumentIds(store'.idb)
              /\ store'.lf # Null
                    => \A i \in 1..Len(store'.lf.versions) :
                          store'.lf.versions[i].documentId # id
              /\ IdbVersionKeys(store'.idb, id) = {}
              /\ \A other \in StoredDocumentIds \ {id} :
                    /\ LoadDocumentResult(store'.lf, other)
                          = LoadDocumentResult(store.lf, other)
                    /\ IdbLoadDocument(store'.idb, other)
                          = IdbLoadDocument(store.idb, other)
                    /\ other \in LfGetAllDocumentIds(store'.lf)
                          <=> other \in LfGetAllDocumentIds(store.lf)
                    /\ other \in IdbGetAllDocumentIds(store'.idb)
                          <=> other \in IdbGetAllDocumentIds(store.idb)
              /\ id \notin LfGetAllDocumentIds(store.lf) => store'.lf = store.lf
              /\ id \notin IdbGetAllDocumentIds(store.idb) => store'.idb = store.idb]_vars

\* a stored document has been deleted (the localForage item is left without
\* documents) while the object store still holds another document and its
\* version
C20_DeletedOneOfTwo ==
    /\ ret.op = "deleteDocument"
    /\ store.lf # Null
    /\ LfGetAllDocumentIds(store.lf) = {}
    /\ IdbLoadDocument(store.idb, ret.id) = Null
    /\ \E other \in StoredDocumentIds \ {ret.id} :
          /\ IdbLoadDocument(store.idb, other) # Null
          /\ IdbLoadDocument(store.idb, other).versions # <<>>

\* C21: init() never rejects, in either storage variant: also when no
\* storage driver is available it resolves, and the service then reports
\* storage as unavailable.
C21_InitNeverRejects ==
    [][ServiceInitSettles
       => /\ ret'.lf = Resolved(Void)
          /\ ret'.idb = Resolved(Void)
          /\ ~store.available => ~LfIsStorageAvailable(store.available)]_vars

\* C22: the storage driver is probed and selected once however often init()
\* is called or implied, an init() call on an initialized service resolves,
\* and an initialized service stays initialized.
C22_InitOnceForAll ==
    [][/\ store'.opens <= 1
       /\ isInitialized.lf => isInitialized'.lf
       /\ isInitialized.idb => isInitialized'.idb
       /\ (ServiceInitSettles /\ isInitialized.lf) => ret'.lf = Resolved(Void)
       /\ (ServiceInitSettles /\ isInitialized.idb) => ret'.idb = Resolved(Void)]_vars

StorageWriteError(cause) == [name |-> "StorageWriteError", cause |-> cause]
StorageReadError(cause) == [name |-> "StorageReadError", cause |-> cause]

\* what makes the operation fail underneath
UnderlyingCause(available, failing) ==
    IF ~available THEN NoDriverAvailable ELSE failing

\* C23: when the underlying write fails (no driver, quota exceeded at the
\* request or when the transaction commits), saveDocument rejects with a
\* StorageWriteError carrying the cause, in either storage variant, and does
\* not resolve.
C23_FailedWriteRejectsWithCause ==
    [][(IsCall("saveDocument") /\ (~store.available \/ ret'.failure # "none"))
       => LET cause == UnderlyingCause(store.available, QuotaExceededError)
          IN  /\ ret'.lf = Rejected(StorageWriteError(cause))
              /\ ret'.idb = Rejected(StorageWriteError(cause))]_vars

\* C24: loadDocument resolves with null only when no document is stored
\* under the id; when the store cannot be read it rejects with a
\* StorageReadError, in either storage variant.
C24_LoadNullOnlyWhenAbsent ==
    [][IsCall("loadDocument")
       => LET unreadable == ~store.available \/ ret'.failure # "none"
              cause == UnderlyingCause(store.available, DataError)
          IN  /\ unreadable => /\ ret'.lf = Rejected(StorageReadError(cause))
                               /\ ret'.idb = Rejected(StorageReadError(cause))
              /\ ret'.lf = Resolved(Null)
                    => ~unreadable /\ ret'.id \notin LfGetAllDocumentIds(store.lf)
              /\ ret'.idb = Resolved(Null)
                    => ~unreadable /\ ret'.id \notin IdbGetAllDocumentIds(store.idb)]_vars

\* C25: every updateContent, saveVersion, loadVersion and deleteVersion call
\* that changes the document has set the in-memory documentState to the
\* document it hands to saveDocument while the store is still untouched, and
\* a rejection of that write leaves documentState as it is.
C25_MemoryFirstNoRollback ==
    [][/\ (now' # now /\ ret'.op \in WritingOps)
          => /\ store' = store
             /\ documentState' # documentState
                   => /\ Len(inflight') = Len(inflight) + 1
                      /\ inflight'[Len(inflight')].doc = documentState'
             /\ inflight' # inflight
                   => inflight'[Len(inflight')].doc = documentState'
       /\ SaveDocumentRejects => documentState' = documentState]_vars

\* the write of an edit made over a stored document has failed: memory
\* holds the edit, the store does not
C25_EditKeptAfterFailedWrite ==
    /\ ret.op = "updateContent"
    /\ inflight = <<>>
    /\ error # NoError
    /\ store # Null
    /\ Len(Versions) = VersionCap
    /\ documentState.content = <<>>
    /\ LoadDocumentResult(store, documentState.id) # Null
    /\ LoadDocumentResult(store, documentState.id).content # <<>>

\* C26: a write that fails after a later operation has changed the document
\* is still reported: error becomes the message of the operation that
\* issued the write, the write is not issued again, and documentState and
\* the store are left as they are.
C26_LateFailureIsReported ==
    [][(SaveDocumentRejects /\ Head(inflight).doc # documentState)
       => /\ error' = Head(inflight).msg
          /\ error' # NoError
          /\ inflight' = Tail(inflight)
          /\ documentState' = documentState
          /\ store' = store]_vars

\* the write of a saveVersion call has failed while the write of the edit
\* that followed it is pending
C26_SaveFailedAfterEdit ==
    /\ ret.op = "updateContent"
    /\ error = FailedToSaveVersion
    /\ Len(inflight) = 1
    /\ inflight[1].doc = documentState
    /\ Versions # <<>>
    /\ documentState.content # Versions[1].content

\* C27: every updateContent, saveVersion, loadVersion and deleteVersion call
\* that changes content or versions sets updatedAt to the time of the call.
C27_ChangesBumpUpdatedAt ==
    [][(/\ now' # now
        /\ ret'.op \in WritingOps
        /\ \/ documentState'.content # documentState.content
           \/ documentState'.versions # Versions)
       => documentState'.updatedAt = now]_vars

\* C28: a version keeps its createdAt, content and summary for as long as a
\* version with its id is in the list: no edit, restore, deletion of another
\* version or load from the store changes them.
C28_VersionsAreImmutable ==
    [][\A i \in 1..Len(Versions) : \A j \in 1..Len(documentState'.versions) :
          Versions[i].id = documentState'.versions[j].id
             => /\ documentState'.versions[j].createdAt = Versions[i].createdAt
                /\ documentState'.versions[j].content = Versions[i].content
                /\ documentState'.versions[j].summary = Versions[i].summary]_vars

\* the content has been cleared by an edit, as the second call of the
\* session, over 20 loaded versions that all have text
C28_EditedOverHistory ==
    /\ ret.op = "updateContent"
    /\ now = BaseTime + 3
    /\ documentState.content = <<>>
    /\ Len(Versions) = VersionCap
    /\ \A i \in 1..Len(Versions) : Versions[i].content # <<>>

\* C29: updateContent(c) leaves versions as they are in the latest in-memory
\* state, also when it is called before React has re-rendered with the
\* result of the call before it: it changes content and updatedAt only.
C29_EditKeepsLatestVersions ==
    [][IsCall("updateContent")
       => /\ documentState'.versions = Versions
          /\ documentState'.id = documentState.id
          /\ documentState'.content = ret'.content]_vars

\* C30: every loadDocumentFromStorage call eventually has isLoading back at
\* false, whether loadDocument returns a document, returns null or rejects;
\* when it returns null or rejects documentState is unchanged, and error is
\* set only by a rejection.
C30_LoadingAlwaysEnds ==
    /\ (loading # Null) ~> (loading = Null /\ isLoading = FALSE)
    /\ (isLoading = TRUE) ~> (isLoading = FALSE)
    /\ [][(loading # Null /\ loading' = Null)
          => LET loadedDocument == IdbLoadDocument(store, loading.docId)
                 rejected == error' = FailedToLoadDocument /\ error # FailedToLoadDocument
             IN  /\ isLoading' = FALSE
                 /\ (loadedDocument = Null \/ rejected)
                       => documentState' = documentState
                 /\ documentState' # documentState => documentState' = loadedDocument
                 /\ error' # error => rejected]_vars

\* a load asked for by a call has ended with a rejection: isLoading is
\* false again and the error is set
C30_LoadRejected ==
    /\ ret.op = "loadDocumentFromStorage"
    /\ loading = Null
    /\ isLoading = FALSE
    /\ error = FailedToLoadDocument

=============================================================================
